---------------------------- MODULE Spec2Model ----------------------------
(***************************************************************************)
(* The quiz session of src/index.tsx: the App component's hook state, the  *)
(* handlers startTraining / handleSubmit / handleNext, the answer input's  *)
(* onChange, the problem fetch generateDailyProblems, and the grading rule *)
(* Math.abs(parseFloat(userAnswer) - problem.answer) < 0.01.               *)
(*                                                                         *)
(* Texts are sequences of one-character strings.  Numbers are exact        *)
(* decimals [nan, n, d] standing for n / 10^d, or NaN; IEEE-754 rounding   *)
(* is outside the model.                                                   *)
(***************************************************************************)
EXTENDS Integers, Sequences, FiniteSets, TLC

VARIABLES
  gameState,        \* useState 'intro' | 'loading' | 'playing' | 'summary'
  problems,         \* useState<MathProblem[]>
  currentIndex,     \* useState(0); 0-based as in the source
  userAnswer,       \* useState(''): the answer text
  showExplanation,  \* useState(false): the answer has been revealed
  history,          \* useState<HistoryItem[]>
  score,            \* useState(0)
  inFlight,         \* startTraining invocations suspended at their await
  crashed,          \* the render of the playing screen threw (tree unmounted)
  lastReply,        \* observation: the reply the last resolved fetch received
  lastEvent         \* observation: the handler that ran last

vars == <<gameState, problems, currentIndex, userAnswer, showExplanation,
          history, score, inFlight, crashed, lastReply, lastEvent>>

session == <<gameState, problems, currentIndex, userAnswer, showExplanation,
             history, score>>

-----------------------------------------------------------------------------
(* Bounds of the model *)

\* longest answer text typed in SpecGrade
MaxLen == 3

\* longest array of a reply whose item count is not the requested one
MaxItems == 2

\* number of problems the prompt asks the service for
NumRequested == 10

-----------------------------------------------------------------------------
(* Numbers *)

NaN == [nan |-> TRUE, n |-> 0, d |-> 0]

Dec(n, d) == [nan |-> FALSE, n |-> n, d |-> d]

RECURSIVE Pow10(_)
Pow10(k) == IF k = 0 THEN 1 ELSE 10 * Pow10(k - 1)

Max(a, b) == IF a >= b THEN a ELSE b

\* a - b; NaN when either operand is NaN
Minus(a, b) ==
  IF a.nan \/ b.nan THEN NaN
  ELSE LET d == Max(a.d, b.d)
       IN  Dec(a.n * Pow10(d - a.d) - b.n * Pow10(d - b.d), d)

MathAbs(a) == IF a.nan THEN NaN ELSE Dec(IF a.n < 0 THEN -a.n ELSE a.n, a.d)

\* a < b; every comparison with NaN is false
LessThan(a, b) ==
  /\ ~a.nan
  /\ ~b.nan
  /\ a.n * Pow10(b.d) < b.n * Pow10(a.d)

\* the literal 0.01 of the grading rule
Tolerance == Dec(1, 2)

-----------------------------------------------------------------------------
(* Texts *)

Digits == {"0", "1", "2", "3", "4", "5", "6", "7", "8", "9"}

DigitVal(c) ==
  CASE c = "0" -> 0 [] c = "1" -> 1 [] c = "2" -> 2 [] c = "3" -> 3
    [] c = "4" -> 4 [] c = "5" -> 5 [] c = "6" -> 6 [] c = "7" -> 7
    [] c = "8" -> 8 [] c = "9" -> 9

\* number of consecutive digits of s starting at position i
RECURSIVE DigitRun(_, _)
DigitRun(s, i) ==
  IF i <= Len(s) /\ s[i] \in Digits THEN 1 + DigitRun(s, i + 1) ELSE 0

\* value of the k digits of s starting at position i, read as an integer
RECURSIVE DigitsValue(_, _, _)
DigitsValue(s, i, k) ==
  IF k = 0 THEN 0
  ELSE 10 * DigitsValue(s, i, k - 1) + DigitVal(s[i + k - 1])

\* parseFloat: the longest prefix that is a decimal literal (sign, integer
\* digits, '.', fraction digits); NaN when that prefix holds no digit.
\* Whitespace, '+', exponents and "Infinity" are not in the alphabets used.
parseFloat(s) ==
  LET neg  == Len(s) >= 1 /\ s[1] = "-"
      p    == IF neg THEN 2 ELSE 1
      ni   == DigitRun(s, p)
      dot  == p + ni <= Len(s) /\ s[p + ni] = "."
      nf   == IF dot THEN DigitRun(s, p + ni + 1) ELSE 0
      mant == DigitsValue(s, p, ni) * Pow10(nf)
                + (IF nf > 0 THEN DigitsValue(s, p + ni + 1, nf) ELSE 0)
  IN  IF ni + nf = 0 THEN NaN
      ELSE Dec(IF neg THEN -mant ELSE mant, nf)

\* variant: the input is a text input, its value is the typed text
valueSanitization_textInput(typed) == typed

\* <input type="number">: the value the element reports is the typed text
\* when it is a valid floating-point number ('-'? digits ('.' digits)? or
\* '-'? '.' digits), and the empty string otherwise.
valueSanitization(typed) ==
  LET neg == Len(typed) >= 1 /\ typed[1] = "-"
      p   == IF neg THEN 2 ELSE 1
      ni  == DigitRun(typed, p)
      dot == p + ni <= Len(typed) /\ typed[p + ni] = "."
      nf  == IF dot THEN DigitRun(typed, p + ni + 1) ELSE 0
      valid == \/ ni > 0 /\ ~dot /\ p + ni = Len(typed) + 1
               \/ dot /\ nf > 0 /\ p + ni + 1 + nf = Len(typed) + 1
  IN  IF valid THEN typed ELSE <<>>

-----------------------------------------------------------------------------
(* Problems and replies of the external service *)

MathProblem(q, a, e, t) ==
  [question |-> q, answer |-> a, explanation |-> e, type |-> t]

\* the three hand-authored problems returned from the catch block (the
\* explanation and type texts are given in ASCII)
FallbackProblems ==
  << MathProblem("25 × 44", Dec(1100, 0),
                 "44 = 4 x 11, 25 x 4 = 100, 100 x 11 = 1100", "associative"),
     MathProblem("135 + 289 + 65", Dec(489, 0),
                 "135 + 65 = 200, 200 + 289 = 489", "rounding"),
     MathProblem("47 × 99 + 47", Dec(4700, 0),
                 "47 x (99 + 1) = 47 x 100", "distributive") >>

\* a reply of the shape the prompt and the schema ask for: NumRequested
\* items with all four fields (the questions are the prompt's examples; the
\* answers repeat the three values 1100, 489, 4700 so that a small set of
\* texts can answer them)
GenQuestions ==
  << "25 x 44", "134 + 258 + 66", "452 - 198", "500 - 123 - 77",
     "25 x 13 x 4", "125 x 7 x 8", "24 x 101", "37 x 99 + 37",
     "68 x 101 - 68", "3600 / 25 / 4" >>

GenAnswers == << Dec(1100, 0), Dec(489, 0), Dec(4700, 0) >>

GeneratedItem(i) ==
  MathProblem(GenQuestions[((i - 1) % Len(GenQuestions)) + 1],
              GenAnswers[((i - 1) % Len(GenAnswers)) + 1],
              "explanation", "type")

GeneratedProblems == [i \in 1..NumRequested |-> GeneratedItem(i)]

\* an item of a parsed reply that lacks fields: a missing answer is the
\* value undefined, which the subtraction of the grading rule turns into NaN
PartialItem == MathProblem("1 + 1", NaN, "undefined", "undefined")

\* a reply: the call rejects ("throws"), the response has no text
\* ("noText"), the text is not JSON ("badJSON"), or the text parses to the
\* array value ("json")
Reply(k, v) == [kind |-> k, value |-> v]

NoReply == Reply("none", <<>>)

FailedReplies == { Reply("throws", <<>>), Reply("noText", <<>>),
                   Reply("badJSON", <<>>) }

\* arrays of 0..MaxItems items, each well-formed or partial
ShortArrays ==
  UNION { [1..n -> {GeneratedItem(1), PartialItem}] : n \in 0..MaxItems }

Replies ==
  FailedReplies \cup { Reply("json", GeneratedProblems) }
                \cup { Reply("json", a) : a \in ShortArrays }

\* variant: the catch block returns an empty list instead of the fallback
generateDailyProblems_emptyOnError(reply) ==
  IF reply.kind = "json" THEN reply.value ELSE <<>>

\* const text = response.text; if (!text) throw ...; return JSON.parse(text)
\* with the catch block returning the fallback
generateDailyProblems(reply) ==
  IF reply.kind = "json" THEN reply.value ELSE FallbackProblems

-----------------------------------------------------------------------------
(* Grading *)

\* variant: the comparison is <= 0.01
isCorrect_inclusive(text, problem) ==
  LET d == MathAbs(Minus(parseFloat(text), problem.answer))
  IN  ~d.nan /\ ~LessThan(Tolerance, d)

\* Math.abs(parseFloat(userAnswer) - currentProblem.answer) < 0.01
isCorrect(text, problem) ==
  LessThan(MathAbs(Minus(parseFloat(text), problem.answer)), Tolerance)

HistoryItem(p, t, c) == [problem |-> p, userAnswer |-> t, isCorrect |-> c]

-----------------------------------------------------------------------------
(* Texts typed into the answer input *)

\* Spec: the three answers of the sample problems, nothing, and a text that
\* is no number
Typed == { <<>>, <<"1", "1", "0", "0">>, <<"4", "8", "9">>,
           <<"4", "7", "0", "0">>, <<"1", "x">> }

-----------------------------------------------------------------------------
(* The session *)

Event(op, origin) == [op |-> op, origin |-> origin]

\* the playing screen reads currentProblem.type of problems[currentIndex]
renderThrows(gs, ps, idx) == gs = "playing" /\ (idx + 1) \notin DOMAIN ps

Init ==
  /\ gameState = "intro"
  /\ problems = <<>>
  /\ currentIndex = 0
  /\ userAnswer = <<>>
  /\ showExplanation = FALSE
  /\ history = <<>>
  /\ score = 0
  /\ inFlight = <<>>
  /\ crashed = FALSE
  /\ lastReply = NoReply
  /\ lastEvent = Event("init", "")

\* variant: the screen is not switched to loading before the await
startTraining_noLoading ==
  /\ ~crashed
  /\ gameState \in {"intro", "summary"}
  /\ inFlight' = Append(inFlight, gameState)
  /\ lastEvent' = Event("start", gameState)
  /\ UNCHANGED <<gameState, problems, currentIndex, userAnswer,
                 showExplanation, history, score, crashed, lastReply>>

\* the start button (intro screen) and the restart button (summary screen):
\* startTraining up to its await
startTraining ==
  /\ ~crashed
  /\ gameState \in {"intro", "summary"}
  /\ gameState' = "loading"
  /\ inFlight' = Append(inFlight, gameState)
  /\ lastEvent' = Event("start", gameState)
  /\ UNCHANGED <<problems, currentIndex, userAnswer, showExplanation,
                 history, score, crashed, lastReply>>

\* variant: setScore(0) is missing
FetchResolve_keepsScore(replies) ==
  /\ inFlight # <<>>
  /\ \E reply \in replies :
       LET newProblems == generateDailyProblems(reply)
       IN  /\ problems' = newProblems
           /\ currentIndex' = 0
           /\ history' = <<>>
           /\ userAnswer' = <<>>
           /\ showExplanation' = FALSE
           /\ gameState' = "playing"
           /\ crashed' = (crashed \/ renderThrows("playing", newProblems, 0))
           /\ lastReply' = reply
  /\ lastEvent' = Event("resolve", Head(inFlight))
  /\ inFlight' = Tail(inFlight)
  /\ UNCHANGED score

\* generateDailyProblems settles and startTraining runs on from its await
FetchResolve(replies) ==
  /\ inFlight # <<>>
  /\ \E reply \in replies :
       LET newProblems == generateDailyProblems(reply)
       IN  /\ problems' = newProblems
           /\ currentIndex' = 0
           /\ score' = 0
           /\ history' = <<>>
           /\ userAnswer' = <<>>
           /\ showExplanation' = FALSE
           /\ gameState' = "playing"
           /\ crashed' = (crashed \/ renderThrows("playing", newProblems, 0))
           /\ lastReply' = reply
  /\ lastEvent' = Event("resolve", Head(inFlight))
  /\ inFlight' = Tail(inFlight)

\* variant: the answer input stays on screen after the submit
onChange_whileRevealed(texts) ==
  /\ ~crashed
  /\ gameState = "playing"
  /\ \E typed \in texts : userAnswer' = valueSanitization(typed)
  /\ lastEvent' = Event("change", gameState)
  /\ UNCHANGED <<gameState, problems, currentIndex, showExplanation,
                 history, score, inFlight, crashed, lastReply>>

\* onChange of the answer input, rendered while playing and not revealed
onChange(texts) ==
  /\ ~crashed
  /\ gameState = "playing"
  /\ ~showExplanation
  /\ \E typed \in texts : userAnswer' = valueSanitization(typed)
  /\ lastEvent' = Event("change", gameState)
  /\ UNCHANGED <<gameState, problems, currentIndex, showExplanation,
                 history, score, inFlight, crashed, lastReply>>

\* variant: the score is incremented on every submit
handleSubmit_countsEvery ==
  /\ ~crashed
  /\ gameState = "playing"
  /\ ~showExplanation
  /\ lastEvent' = Event("submit", gameState)
  /\ IF userAnswer = <<>>
     THEN UNCHANGED <<score, history, showExplanation>>
     ELSE LET currentProblem == problems[currentIndex + 1]
              correct == isCorrect(userAnswer, currentProblem)
          IN  /\ score' = score + 1
              /\ history' = Append(history,
                                   HistoryItem(currentProblem, userAnswer, correct))
              /\ showExplanation' = TRUE
  /\ UNCHANGED <<gameState, problems, currentIndex, userAnswer,
                 inFlight, crashed, lastReply>>

\* variant: the early return on an empty answer text is missing
handleSubmit_noEmptyCheck ==
  /\ ~crashed
  /\ gameState = "playing"
  /\ ~showExplanation
  /\ lastEvent' = Event("submit", gameState)
  /\ LET currentProblem == problems[currentIndex + 1]
         correct == isCorrect(userAnswer, currentProblem)
     IN  /\ score' = IF correct THEN score + 1 ELSE score
         /\ history' = Append(history,
                              HistoryItem(currentProblem, userAnswer, correct))
         /\ showExplanation' = TRUE
  /\ UNCHANGED <<gameState, problems, currentIndex, userAnswer,
                 inFlight, crashed, lastReply>>

\* variant: setShowExplanation(true) is missing, the form stays up
handleSubmit_noReveal ==
  /\ ~crashed
  /\ gameState = "playing"
  /\ ~showExplanation
  /\ lastEvent' = Event("submit", gameState)
  /\ IF userAnswer = <<>>
     THEN UNCHANGED <<score, history>>
     ELSE LET currentProblem == problems[currentIndex + 1]
              correct == isCorrect(userAnswer, currentProblem)
          IN  /\ score' = IF correct THEN score + 1 ELSE score
              /\ history' = Append(history,
                                   HistoryItem(currentProblem, userAnswer, correct))
  /\ UNCHANGED <<gameState, problems, currentIndex, userAnswer,
                 showExplanation, inFlight, crashed, lastReply>>

\* variant: setHistory([newItem]) without the spread of history
handleSubmit_replacesHistory ==
  /\ ~crashed
  /\ gameState = "playing"
  /\ ~showExplanation
  /\ lastEvent' = Event("submit", gameState)
  /\ IF userAnswer = <<>>
     THEN UNCHANGED <<score, history, showExplanation>>
     ELSE LET currentProblem == problems[currentIndex + 1]
              correct == isCorrect(userAnswer, currentProblem)
          IN  /\ score' = IF correct THEN score + 1 ELSE score
              /\ history' = << HistoryItem(currentProblem, userAnswer, correct) >>
              /\ showExplanation' = TRUE
  /\ UNCHANGED <<gameState, problems, currentIndex, userAnswer,
                 inFlight, crashed, lastReply>>

\* variant: the answer text is cleared on submit
handleSubmit_clearsAnswer ==
  /\ ~crashed
  /\ gameState = "playing"
  /\ ~showExplanation
  /\ lastEvent' = Event("submit", gameState)
  /\ IF userAnswer = <<>>
     THEN UNCHANGED <<score, history, showExplanation, userAnswer>>
     ELSE LET currentProblem == problems[currentIndex + 1]
              correct == isCorrect(userAnswer, currentProblem)
          IN  /\ score' = IF correct THEN score + 1 ELSE score
              /\ history' = Append(history,
                                   HistoryItem(currentProblem, userAnswer, correct))
              /\ showExplanation' = TRUE
              /\ userAnswer' = <<>>
  /\ UNCHANGED <<gameState, problems, currentIndex,
                 inFlight, crashed, lastReply>>

\* variant: the record is built from problems[0]
handleSubmit_firstProblem ==
  /\ ~crashed
  /\ gameState = "playing"
  /\ ~showExplanation
  /\ lastEvent' = Event("submit", gameState)
  /\ IF userAnswer = <<>>
     THEN UNCHANGED <<score, history, showExplanation>>
     ELSE LET currentProblem == problems[1]
              correct == isCorrect(userAnswer, currentProblem)
          IN  /\ score' = IF correct THEN score + 1 ELSE score
              /\ history' = Append(history,
                                   HistoryItem(currentProblem, userAnswer, correct))
              /\ showExplanation' = TRUE
  /\ UNCHANGED <<gameState, problems, currentIndex, userAnswer,
                 inFlight, crashed, lastReply>>

\* onSubmit of the answer form, rendered while playing and not revealed
handleSubmit ==
  /\ ~crashed
  /\ gameState = "playing"
  /\ ~showExplanation
  /\ lastEvent' = Event("submit", gameState)
  /\ IF userAnswer = <<>>
     THEN UNCHANGED <<score, history, showExplanation>>
     ELSE LET currentProblem == problems[currentIndex + 1]
              correct == isCorrect(userAnswer, currentProblem)
          IN  /\ score' = IF correct THEN score + 1 ELSE score
              /\ history' = Append(history,
                                   HistoryItem(currentProblem, userAnswer, correct))
              /\ showExplanation' = TRUE
  /\ UNCHANGED <<gameState, problems, currentIndex, userAnswer,
                 inFlight, crashed, lastReply>>

\* variant: the bound of the comparison is problems.length
handleNext_offByOne ==
  /\ ~crashed
  /\ gameState = "playing"
  /\ showExplanation
  /\ lastEvent' = Event("next", gameState)
  /\ IF currentIndex < Len(problems)
     THEN /\ currentIndex' = currentIndex + 1
          /\ userAnswer' = <<>>
          /\ showExplanation' = FALSE
          /\ crashed' = renderThrows(gameState, problems, currentIndex + 1)
          /\ UNCHANGED gameState
     ELSE /\ gameState' = "summary"
          /\ UNCHANGED <<currentIndex, userAnswer, showExplanation, crashed>>
  /\ UNCHANGED <<problems, history, score, inFlight, lastReply>>

\* variant: setUserAnswer('') is missing
handleNext_keepsAnswer ==
  /\ ~crashed
  /\ gameState = "playing"
  /\ showExplanation
  /\ lastEvent' = Event("next", gameState)
  /\ IF currentIndex < Len(problems) - 1
     THEN /\ currentIndex' = currentIndex + 1
          /\ showExplanation' = FALSE
          /\ crashed' = renderThrows(gameState, problems, currentIndex + 1)
          /\ UNCHANGED <<gameState, userAnswer>>
     ELSE /\ gameState' = "summary"
          /\ UNCHANGED <<currentIndex, userAnswer, showExplanation, crashed>>
  /\ UNCHANGED <<problems, history, score, inFlight, lastReply>>

\* variant: the last advance returns to the intro screen
handleNext_toIntro ==
  /\ ~crashed
  /\ gameState = "playing"
  /\ showExplanation
  /\ lastEvent' = Event("next", gameState)
  /\ IF currentIndex < Len(problems) - 1
     THEN /\ currentIndex' = currentIndex + 1
          /\ userAnswer' = <<>>
          /\ showExplanation' = FALSE
          /\ crashed' = renderThrows(gameState, problems, currentIndex + 1)
          /\ UNCHANGED gameState
     ELSE /\ gameState' = "intro"
          /\ UNCHANGED <<currentIndex, userAnswer, showExplanation, crashed>>
  /\ UNCHANGED <<problems, history, score, inFlight, lastReply>>

\* the advance button of the explanation panel
handleNext ==
  /\ ~crashed
  /\ gameState = "playing"
  /\ showExplanation
  /\ lastEvent' = Event("next", gameState)
  /\ IF currentIndex < Len(problems) - 1
     THEN /\ currentIndex' = currentIndex + 1
          /\ userAnswer' = <<>>
          /\ showExplanation' = FALSE
          /\ crashed' = renderThrows(gameState, problems, currentIndex + 1)
          /\ UNCHANGED gameState
     ELSE /\ gameState' = "summary"
          /\ UNCHANGED <<currentIndex, userAnswer, showExplanation, crashed>>
  /\ UNCHANGED <<problems, history, score, inFlight, lastReply>>

Next ==
  \/ startTraining
  \/ FetchResolve(Replies)
  \/ onChange(Typed)
  \/ handleSubmit
  \/ handleNext

Spec == Init /\ [][Next]_vars

-----------------------------------------------------------------------------
(* The same session with the inputs that exercise the grading rule: one-   *)
(* problem replies whose answers lie on and around the tolerance, and      *)
(* every text of up to MaxLen characters over a small alphabet.            *)

GradeAlphabet == {"0", "1", ".", "-", "x"}

GradeTyped == UNION { [1..n -> GradeAlphabet] : n \in 0..MaxLen }

\* 0, 0.005, 1.009, 1.01, -0.99, -0.991, 11
GradeAnswers == { Dec(0, 0), Dec(5, 3), Dec(1009, 3), Dec(101, 2),
                  Dec(-99, 2), Dec(-991, 3), Dec(11, 0) }

GradeReplies ==
  { Reply("json", << MathProblem("q", a, "explanation", "type") >>) :
      a \in GradeAnswers }

NextGrade ==
  \/ startTraining
  \/ FetchResolve(GradeReplies)
  \/ onChange(GradeTyped)
  \/ handleSubmit
  \/ handleNext

SpecGrade == Init /\ [][NextGrade]_vars

-----------------------------------------------------------------------------
(* Properties *)

CorrectCount(h) == Cardinality({ i \in DOMAIN h : h[i].isCorrect })

\* C1: in every reachable state (between a submit and the advance, in the
\* loading state after a restart, ...) score is the number of history
\* records whose isCorrect flag is true.
C1_ScoreCountsCorrect == score = CorrectCount(history)

\* C1 witness: between a submit and the advance, with correct and incorrect
\* records in the history
C1_Witness ==
  /\ gameState = "playing"
  /\ showExplanation
  /\ lastEvent.op = "submit"
  /\ score >= 2
  /\ \E i \in DOMAIN history : ~history[i].isCorrect

\* the value of a text that is a decimal numeral (optional '-', digits,
\* optional '.' and digits), in units of 10^-k: each digit weighted by its
\* distance from the decimal point
IsNumeral(t) ==
  /\ \E i \in DOMAIN t : t[i] \in Digits
  /\ \A i \in DOMAIN t : t[i] \in Digits \cup {".", "-"}
  /\ \A i \in DOMAIN t : t[i] = "-" => i = 1
  /\ Cardinality({ i \in DOMAIN t : t[i] = "." }) <= 1
  /\ Len(t) >= 1 => t[Len(t)] # "."

RECURSIVE SumOver(_, _, _, _)
SumOver(t, i, point, k) ==
  IF i > Len(t) THEN 0
  ELSE (IF t[i] \in Digits
        THEN DigitVal(t[i]) * Pow10(k + (IF i < point THEN point - 1 - i
                                                     ELSE point - i))
        ELSE 0) + SumOver(t, i + 1, point, k)

PointOf(t) ==
  LET dots == { i \in DOMAIN t : t[i] = "." }
  IN  IF dots = {} THEN Len(t) + 1 ELSE CHOOSE i \in dots : TRUE

RefValue(t, k) ==
  LET mag == SumOver(t, 1, PointOf(t), k)
  IN  IF t[1] = "-" THEN -mag ELSE mag

\* |value of t - a| < 0.01, computed on integers in units of 10^-k, k the
\* finest of the text's decimals, the answer's decimals and the tolerance's
RefWithinTolerance(t, a) ==
  LET k    == Max(Max(Len(t) + 1 - PointOf(t), a.d), 2)
      diff == RefValue(t, k) - a.n * Pow10(k - a.d)
  IN  /\ -Pow10(k - 2) < diff
      /\ diff < Pow10(k - 2)

\* C2: for every problem and every answer text that is a number, the
\* recorded grading result is true exactly when the text's value differs
\* from the problem's answer by strictly less than 0.01.
C2_GradingIsTolerance ==
  \A i \in DOMAIN history :
    LET r == history[i]
    IN  (IsNumeral(r.userAnswer) /\ ~r.problem.answer.nan)
          => (r.isCorrect <=> RefWithinTolerance(r.userAnswer, r.problem.answer))

\* C2 witness: a text exactly 0.01 away from the answer has been graded
\* (1 against 1.01, -1 against -0.99, .01 against 0)
C2_Witness ==
  \E i \in DOMAIN history :
    LET r == history[i]
        d == MathAbs(Minus(parseFloat(r.userAnswer), r.problem.answer))
    IN  /\ IsNumeral(r.userAnswer)
        /\ d.n * 100 = Pow10(d.d)
        /\ ~r.isCorrect

\* C3: a submit while the answer text is empty changes nothing: no history
\* record, score, currentIndex and problems unchanged, the screen still
\* playing and the answer still not revealed.
C3_EmptySubmitNoOp ==
  [][ (lastEvent'.op = "submit" /\ userAnswer = <<>>)
        => /\ UNCHANGED session
           /\ gameState' = "playing"
           /\ ~showExplanation' ]_vars

\* C3 witness: a submit has run on an empty answer text
C3_Witness ==
  /\ lastEvent.op = "submit"
  /\ userAnswer = <<>>
  /\ gameState = "playing"
  /\ ~showExplanation

\* C4: after a failed fetch (the call throws, no text, text not JSON) the
\* session holds exactly the three fallback problems in their order, the
\* first one asking "25 × 44", it is playing when the fetch resolves, and
\* nothing of the failure reaches the session.
C4_FailedFetchFallback ==
  lastReply \in FailedReplies
    => /\ Len(problems) = 3
       /\ problems[1].question = "25 × 44"
       /\ problems[2].question = "135 + 289 + 65"
       /\ problems[3].question = "47 × 99 + 47"
       /\ problems = FallbackProblems
       /\ ~crashed
       /\ lastEvent.op = "resolve" => gameState = "playing"

\* C4 witness: a fetch whose call threw has resolved
C4_Witness ==
  /\ lastReply.kind = "throws"
  /\ lastEvent.op = "resolve"
  /\ gameState = "playing"

WellFormed(p) ==
  /\ ~p.answer.nan
  /\ p.question # "undefined"
  /\ p.explanation # "undefined"
  /\ p.type # "undefined"

\* C5: whenever a fetch has resolved, the installed problems are either
\* exactly NumRequested well-formed records or exactly the fallback; a
\* parsed reply of another shape is replaced by the fallback.
C5_TenOrFallback ==
  lastEvent.op = "resolve"
    => \/ problems = FallbackProblems
       \/ /\ Len(problems) = NumRequested
          /\ \A i \in DOMAIN problems : WellFormed(problems[i])

\* C6: while the screen is playing, currentIndex is a valid index into
\* problems.
C6_IndexValid ==
  gameState = "playing" => (0 <= currentIndex /\ currentIndex < Len(problems))

\* C7: while playing, history holds currentIndex records before the submit
\* and currentIndex + 1 after it; while playing, currentIndex changes only
\* by an advance, by one, past a problem that has its one record.
C7_HistoryTracksIndex ==
  /\ [](gameState = "playing"
          => Len(history) = (IF showExplanation THEN currentIndex + 1
                                                ELSE currentIndex))
  /\ [][ (gameState = "playing" /\ gameState' = "playing"
            /\ currentIndex' # currentIndex)
           => /\ lastEvent'.op = "next"
              /\ currentIndex' = currentIndex + 1
              /\ Len(history) = currentIndex + 1
              /\ history[currentIndex + 1].problem = problems[currentIndex + 1]
              /\ history' = history ]_vars

\* C7 witness: the second problem's answer has been submitted
C7_Witness ==
  /\ gameState = "playing"
  /\ showExplanation
  /\ currentIndex = 1
  /\ Len(history) = 2
  /\ lastEvent.op = "submit"

\* C8: an advance on the last problem moves to the summary without touching
\* problems, score and history, and they keep their values from then on
\* until a restarted fetch resolves.
C8_SummaryFreezes ==
  /\ [][ (lastEvent'.op = "next" /\ currentIndex = Len(problems) - 1)
           => /\ gameState' = "summary"
              /\ UNCHANGED <<problems, score, history>> ]_vars
  /\ [][ (gameState = "summary" \/ (gameState = "loading" /\ history # <<>>))
           => \/ UNCHANGED <<problems, score, history>>
              \/ lastEvent'.op = "resolve" ]_vars
  /\ [][ gameState = "summary" => gameState' \in {"summary", "loading"} ]_vars

\* C8 witness: the summary of a finished session with a score
C8_Witness ==
  /\ gameState = "summary"
  /\ lastEvent.op = "next"
  /\ Len(history) = Len(problems)
  /\ score >= 1

\* C9: when the screen becomes playing again after a restart from the
\* summary, score = 0, history is empty, currentIndex = 0, the answer text
\* is empty, the answer is not revealed and problems is what the new fetch
\* produced.
C9_RestartResets ==
  lastEvent = Event("resolve", "summary")
    => /\ gameState = "playing"
       /\ score = 0
       /\ history = <<>>
       /\ currentIndex = 0
       /\ userAnswer = <<>>
       /\ ~showExplanation
       /\ \/ lastReply \in FailedReplies /\ problems = FallbackProblems
          \/ lastReply.kind = "json" /\ problems = lastReply.value

\* C9 witness: a fetch started from the summary has resolved
C9_Witness ==
  /\ lastEvent = Event("resolve", "summary")
  /\ gameState = "playing"
  /\ Len(problems) = NumRequested

\* C10: at most one fetch is in flight; one is in flight exactly while the
\* screen is loading; start is taken only from intro and summary; while a
\* fetch is in flight the only step is its resolution, so a resolution
\* never replaces a session that is being played.
C10_OneFetch ==
  /\ [](Len(inFlight) <= 1 /\ (inFlight # <<>> <=> gameState = "loading"))
  /\ [][ lastEvent'.op = "start" => gameState \in {"intro", "summary"} ]_vars
  /\ [][ inFlight # <<>> => lastEvent'.op = "resolve" ]_vars
  /\ [][ lastEvent'.op = "resolve" => gameState = "loading" ]_vars

\* C10 witness: a restart's fetch is in flight
C10_Witness ==
  /\ inFlight = <<"summary">>
  /\ gameState = "loading"
  /\ lastEvent.op = "start"

-----------------------------------------------------------------------------
(* The session under fairness: the external call eventually returns or     *)
(* throws, and the user keeps typing an answer, submitting it and          *)
(* advancing.  One answer text keeps the state space small.                *)

LiveTyped == { <<>>, <<"1", "1", "0", "0">> }

\* the user types an answer
TypeAnswer == onChange(LiveTyped) /\ userAnswer' # <<>>

\* the user submits a typed answer
SubmitAnswer == handleSubmit /\ userAnswer # <<>>

NextLive ==
  \/ startTraining
  \/ FetchResolve(Replies)
  \/ onChange(LiveTyped)
  \/ handleSubmit
  \/ handleNext

SpecLive ==
  /\ Init
  /\ [][NextLive]_vars
  /\ WF_vars(FetchResolve(Replies))
  /\ WF_vars(TypeAnswer)
  /\ SF_vars(SubmitAnswer)
  /\ WF_vars(handleNext)

\* C11: once the screen is loading, it eventually is playing, rendered
\* without an error, with currentIndex = 0, score = 0 and an empty history
\* (the external call is assumed to return or throw eventually).
C11_StartReachesPlaying ==
  (gameState = "loading")
    ~> (/\ gameState = "playing"
        /\ ~crashed
        /\ currentIndex = 0
        /\ score = 0
        /\ history = <<>>)

IsPrefix(a, b) == Len(a) <= Len(b) /\ SubSeq(b, 1, Len(a)) = a

\* C13: within a session (every step but the resolution of a fetch) history
\* is left unchanged or, by a submit only, extended by exactly one record at
\* its end; no record is modified, reordered or removed.
C13_HistoryAppendOnly ==
  [][ lastEvent'.op # "resolve"
        => \/ history' = history
           \/ /\ lastEvent'.op = "submit"
              /\ Len(history') = Len(history) + 1
              /\ IsPrefix(history, history') ]_vars

\* C13 witness: a third record has been appended
C13_Witness ==
  /\ lastEvent.op = "submit"
  /\ Len(history) = 3
  /\ showExplanation

\* the grading result expected for text t and problem p
RefGrade(t, p) ==
  IsNumeral(t) /\ ~p.answer.nan /\ RefWithinTolerance(t, p.answer)

\* C14: a submit of a non-empty answer text appends exactly the record
\* <problems[currentIndex], the answer text, grading result>, adds 1 to
\* score when the result is true and nothing otherwise, reveals the answer
\* and leaves screen, problems, currentIndex and the answer text unchanged;
\* it is taken only while playing and not revealed.
C14_SubmitEffect ==
  [][ (lastEvent'.op = "submit" /\ userAnswer # <<>>)
        => LET p == problems[currentIndex + 1]
               g == RefGrade(userAnswer, p)
           IN  /\ gameState = "playing"
               /\ ~showExplanation
               /\ history' = Append(history, [problem |-> p,
                                              userAnswer |-> userAnswer,
                                              isCorrect |-> g])
               /\ score' = IF g THEN score + 1 ELSE score
               /\ showExplanation' = TRUE
               /\ UNCHANGED <<gameState, problems, currentIndex, userAnswer>> ]_vars

\* C14 witness: "4700" has been submitted for 47 × 99 + 47 and graded true
C14_Witness ==
  /\ lastEvent.op = "submit"
  /\ showExplanation
  /\ problems[currentIndex + 1].question = "47 × 99 + 47"
  /\ userAnswer = <<"4", "7", "0", "0">>
  /\ history[Len(history)].isCorrect
  /\ score = 1

\* C15: an advance is taken only while playing with the answer revealed;
\* while more problems remain it adds 1 to currentIndex, clears the answer
\* text, hides the answer and leaves the screen (playing), problems, score
\* and history unchanged.
C15_AdvanceEffect ==
  /\ [][ lastEvent'.op = "next"
           => gameState = "playing" /\ showExplanation ]_vars
  /\ [][ (lastEvent'.op = "next" /\ currentIndex < Len(problems) - 1)
           => /\ currentIndex' = currentIndex + 1
              /\ userAnswer' = <<>>
              /\ showExplanation' = FALSE
              /\ gameState' = "playing"
              /\ UNCHANGED <<problems, score, history>> ]_vars

\* C15 witness: an advance has moved to the third problem
C15_Witness ==
  /\ lastEvent.op = "next"
  /\ gameState = "playing"
  /\ currentIndex = 2
  /\ userAnswer = <<>>
  /\ ~showExplanation

\* C16: the screen changes only along intro -> loading (start),
\* loading -> playing (fetch resolves), playing -> summary (advance from
\* the last problem) and summary -> loading (restart).
C16_ScreenFlow ==
  [][ gameState' # gameState
        => \/ /\ gameState = "intro" /\ gameState' = "loading"
              /\ lastEvent'.op = "start"
           \/ /\ gameState = "loading" /\ gameState' = "playing"
              /\ lastEvent'.op = "resolve"
           \/ /\ gameState = "playing" /\ gameState' = "summary"
              /\ lastEvent'.op = "next"
              /\ currentIndex = Len(problems) - 1
           \/ /\ gameState = "summary" /\ gameState' = "loading"
              /\ lastEvent'.op = "start" ]_vars

\* C16 witness: a restart after a session of NumRequested problems
C16_Witness ==
  /\ gameState = "loading"
  /\ lastEvent = Event("start", "summary")
  /\ Len(history) = NumRequested

\* C17: every session that starts playing reaches the summary, with one
\* record per problem, when the user keeps typing, submitting and advancing.
C17_SessionReachesSummary ==
  (gameState = "playing")
    ~> (gameState = "summary" /\ Len(history) = Len(problems))

\* C18: the i-th record refers to the i-th problem; on the summary screen
\* there is one record per problem; 0 <= score <= history.length <=
\* problems.length.
C18_HistoryMatchesProblems ==
  /\ \A i \in DOMAIN history :
       i \in DOMAIN problems /\ history[i].problem = problems[i]
  /\ gameState = "summary" => Len(history) = Len(problems)
  /\ 0 <= score
  /\ score <= Len(history)
  /\ Len(history) <= Len(problems)

\* C18 witness: the summary of a session of NumRequested problems, some
\* answered correctly and some not
C18_Witness ==
  /\ gameState = "summary"
  /\ Len(history) = NumRequested
  /\ score >= 1
  /\ score < NumRequested

-----------------------------------------------------------------------------
(* What the screens show *)

\* the explanation panel: the verdict is computed again from the answer
\* text and the current problem
verdictShown == isCorrect(userAnswer, problems[currentIndex + 1])

\* score at which the summary shows the top message
MasterScore == 10

\* score from which the summary shows the second message
ExcellentScore == 8

\* the message of the summary screen
summaryMessage ==
  IF score = MasterScore THEN "master"
  ELSE IF score >= ExcellentScore THEN "excellent"
  ELSE "good"

\* C19: while the explanation panel is shown, the verdict it displays is
\* the isCorrect flag of the last record, whose text is the answer text;
\* the answer text does not change while the answer is revealed.
C19_VerdictMatchesRecord ==
  /\ []((gameState = "playing" /\ showExplanation)
          => /\ history # <<>>
             /\ verdictShown = history[Len(history)].isCorrect
             /\ userAnswer = history[Len(history)].userAnswer)
  /\ [][ (gameState = "playing" /\ showExplanation /\ showExplanation')
           => userAnswer' = userAnswer ]_vars

\* C19 witness: the panel shows the verdict "wrong" for a number
C19_Witness ==
  /\ gameState = "playing"
  /\ showExplanation
  /\ ~verdictShown
  /\ IsNumeral(userAnswer)
  /\ ~problems[currentIndex + 1].answer.nan

\* C20: on the summary screen of a session of NumRequested problems or of
\* the fallback problems, the top message is shown exactly when every
\* problem was answered correctly.
C20_MasterIffAllCorrect ==
  (/\ gameState = "summary"
   /\ \/ Len(problems) = NumRequested
      \/ problems = FallbackProblems)
    => (summaryMessage = "master" <=> score = Len(problems))

=============================================================================
